---- MODULE Spec2Model ----
(***************************************************************************)
(* State-machine model of the monitoring state store of the stock market   *)
(* bots (src/monitoring.py): BotMonitor with its in-memory document, its   *)
(* lock, the status file written through a temp file and os.replace, and   *)
(* an independent reader of the status file.                               *)
(***************************************************************************)
EXTENDS Integers, Sequences, FiniteSets, TLC

VARIABLES
    max_events,   \* BotMonitor.max_events (the same for every monitor object)
    monOf,        \* caller thread -> the BotMonitor object it calls
    constructed,  \* monitor -> "new" | "ready" | "raised" (__init__ outcome)
    state,        \* monitor -> BotMonitor._state, a dict (function on its keys)
    lock,         \* monitor -> 0 (free) or the thread holding BotMonitor._lock
    pc,           \* thread -> position inside record_event / record_run
    call,         \* thread -> arguments and timestamp of the call in progress
    cnt,          \* thread -> counter value read at line 105 / 108
    faults,       \* the exceptions that reached a caller of the monitor
    clock,        \* datetime.now(timezone.utc), as an integer that grows with each reading
    nCalls,       \* number of record calls invoked so far
    invoked,      \* history: the calls, in the order they were invoked
    applied,      \* history: the events, in the order _record_event_locked ran
    overlap,      \* history: some call was invoked while another was in progress
    inodes,       \* inode -> file content (sequence of units)
    tmpIno,       \* inode of <bot>_status.tmp, 0 when the path is absent
    statusIno,    \* inode of <bot>_status.json, 0 when the path is absent
    unreadable,   \* opening the status file for reading raises OSError
    wh,           \* thread -> inode of its open temp-file handle, 0 when closed
    wpos,         \* thread -> units its handle has written so far
    rpc,          \* external reader: "idle" | "open"
    rIno,         \* inode the reader holds open
    saw,          \* what the reader's last read returned
    snapshot,     \* what the last get_state call returned
    loaded,       \* history: what the status file held before construction
    dirFault,     \* errno of stat / open on paths inside status_dir, "none" when usable
    shared,       \* keys whose value object the snapshot shares with _state
    retry,        \* the post_with_retry call: position, arguments, effects
    files,        \* the directory load_all_statuses scans: the kind of each file
    scan,         \* the load_all_statuses call: position and result
    bot,          \* the run_market_update call: position, label, what it did
    server        \* the server loop: position, wall clock, last post dates, runs

vars == <<max_events, monOf, constructed, state, lock, pc, call, cnt, faults,
          clock, nCalls, invoked, applied, overlap, inodes, tmpIno, statusIno,
          unreadable, wh, wpos, rpc, rIno, saw, snapshot, loaded,
          dirFault, shared, retry, files, scan, bot, server>>

-----------------------------------------------------------------------------
(* Bounds of the model. *)

\* record_event / record_run calls invoked in one behaviour
MaxCalls == 2

\* max_events is drawn from 0..MaxEventsBound
MaxEventsBound == 2
MaxRunCalls == 3
MaxRetriesBound == 3
MaxBackoff == 3

Threads == {1, 2}
Monitors == {1, 2}

-----------------------------------------------------------------------------
(* Values. *)

\* JSON null / Python None
None == -1

BotName == "stock_bot"

\* the keys _apply_defaults ensures
Required == {"bot_name", "last_updated", "last_success", "last_failure",
             "success_count", "failure_count", "events", "runs"}

\* the order in which a document's keys are written
KeyOrder == <<"bot_name", "last_updated", "last_success", "last_failure",
              "success_count", "failure_count", "events", "runs">>

EmptyDict == [k \in {} |-> None]

DefaultOf(k) ==
    CASE k = "bot_name" -> BotName
      [] k \in {"last_updated", "last_success", "last_failure"} -> None
      [] k \in {"success_count", "failure_count"} -> 0
      [] k = "events" -> <<>>
      [] OTHER -> EmptyDict

\* dict.get(k, dflt)
Get(d, k, dflt) == IF k \in DOMAIN d THEN d[k] ELSE dflt

\* d[k] = v
Put(d, k, v) == [x \in DOMAIN d \cup {k} |-> IF x = k THEN v ELSE d[x]]

\* variant of _apply_defaults: state.update(defaults) instead of setdefault
ApplyDefaultsOverwrite(st) ==
    [k \in DOMAIN st \cup Required |-> IF k \in Required THEN DefaultOf(k) ELSE st[k]]

\* _apply_defaults: setdefault for every required key
ApplyDefaults(st) ==
    [k \in DOMAIN st \cup Required |-> IF k \in DOMAIN st THEN st[k] ELSE DefaultOf(k)]

Max(a, b) == IF a > b THEN a ELSE b
Min(a, b) == IF a < b THEN a ELSE b

\* Python's s[start:] for any integer start
PySliceFrom(s, start) ==
    LET n == Len(s)
        lo == IF start < 0 THEN Max(n + start, 0) ELSE Min(start, n)
    IN  SubSeq(s, lo + 1, n)

\* lines 88-94: the event dict; metadata is stored only when truthy
NewEvent(ts, type, msg, md) ==
    LET base == [timestamp |-> ts, type |-> type, message |-> msg]
    IN  IF md # EmptyDict THEN Put(base, "metadata", md) ELSE base

\* lines 96-100: append, then keep events[-max_events:] when too long
AppendTrim(events, ev, maxev) ==
    LET appended == Append(events, ev)
    IN  IF Len(appended) > maxev THEN PySliceFrom(appended, -maxev) ELSE appended

\* a run entry stamped by a clock reading of its own, later than the event's
RunEntryOwnClock(status, ts, msg, md) ==
    LET base == [status |-> status, timestamp |-> ts + 1]
        withMsg == IF msg # "" THEN Put(base, "message", msg) ELSE base
    IN  IF md # EmptyDict THEN Put(withMsg, "metadata", md) ELSE withMsg

\* lines 131-138: the run entry; message and metadata only when truthy
RunEntry(status, ts, msg, md) ==
    LET base == [status |-> status, timestamp |-> ts]
        withMsg == IF msg # "" THEN Put(base, "message", msg) ELSE base
    IN  IF md # EmptyDict THEN Put(withMsg, "metadata", md) ELSE withMsg

\* variant of the mapping without the "warning" branch
EventTypeOfNoWarning(status) ==
    IF status = "success" THEN "success"
    ELSE IF status = "error" THEN "error"
    ELSE "info"

\* lines 144-151: the event type of a run status
EventTypeOf(status) ==
    IF status = "success" THEN "success"
    ELSE IF status = "error" THEN "error"
    ELSE IF status = "warning" THEN "warning"
    ELSE "info"

\* line 153
DefaultMessage(run_type, status) == run_type \o " run reported " \o status

-----------------------------------------------------------------------------
(* Files: a file is a sequence of units, a unit being one key with its     *)
(* value or one piece of punctuation.                                      *)

Punct(s) == [key |-> s, val |-> None]
Open == Punct("{")
Close == Punct("}")
Nul == Punct("\\0")
BadByte == Punct("\\xff")
IsPunct(u) == u.key \in {"{", "}", "[", "]", "\\0", "\\xff"}

RECURSIVE DumpKeys(_, _)
DumpKeys(d, i) ==
    IF i > Len(KeyOrder) THEN <<>>
    ELSE (IF KeyOrder[i] \in DOMAIN d
          THEN <<[key |-> KeyOrder[i], val |-> d[KeyOrder[i]]]>>
          ELSE <<>>) \o DumpKeys(d, i + 1)

\* json.dump(self._state, handle, indent=2)
JsonDump(d) == <<Open>> \o DumpKeys(d, 1) \o <<Close>>

Loaded(kind, doc) == [kind |-> kind, doc |-> doc]

\* handle.read() under encoding="utf-8", then json.loads of the text
JsonLoad(c) ==
    IF \E i \in 1..Len(c) : c[i] = BadByte THEN Loaded("UnicodeDecodeError", EmptyDict)
    ELSE IF /\ Len(c) >= 2
            /\ c[1] = Open
            /\ c[Len(c)] = Close
            /\ \A i \in 2..Len(c) - 1 : ~IsPunct(c[i])
         THEN LET keys == {c[i].key : i \in 2..Len(c) - 1}
                  last(k) == CHOOSE i \in 2..Len(c) - 1 :
                                /\ c[i].key = k
                                /\ \A j \in 2..Len(c) - 1 : c[j].key = k => j <= i
              IN  Loaded("dict", [k \in keys |-> c[last(k)].val])
    ELSE IF c = <<Punct("["), Punct("]")>> THEN Loaded("list", EmptyDict)
    ELSE Loaded("JSONDecodeError", EmptyDict)

\* handle.write(data) at offset pos of a file holding c
WriteAt(c, pos, data) ==
    [i \in 1..Max(Len(c), pos + Len(data)) |->
        IF i <= pos THEN (IF i <= Len(c) THEN c[i] ELSE Nul)
        ELSE IF i <= pos + Len(data) THEN data[i - pos]
        ELSE c[i]]

\* the smallest inode number not in use
FreshIno == CHOOSE i \in 1..Cardinality(DOMAIN inodes) + 1 : i \notin DOMAIN inodes

\* inodes still referenced by a path or an open handle after the step
RefsNext == ({tmpIno', statusIno', rIno'} \cup {wh'[t] : t \in Threads}) \ {0}

Keep(f, S) == [i \in S \cap DOMAIN f |-> f[i]]

StatusContent == IF statusIno = 0 THEN <<>> ELSE inodes[statusIno]

-----------------------------------------------------------------------------
(* Calls. *)

EventTypes == {"success", "error", "info"}
RunTypes == {"morning"}
Statuses == {"success", "skipped"}

NoCall == [op |-> "none", kind |-> "", run_type |-> "", message |-> "",
           metadata |-> EmptyDict, timestamp |-> None]

Msg(n) == "m" \o ToString(n)

\* the event a call records
EventOfCall(c) ==
    IF c.op = "event"
    THEN NewEvent(c.timestamp, c.kind, c.message, c.metadata)
    ELSE NewEvent(c.timestamp, EventTypeOf(c.kind),
                  IF c.message # "" THEN c.message ELSE DefaultMessage(c.run_type, c.kind),
                  c.metadata)

FreshState == ApplyDefaults(EmptyDict)

\* post_with_retry not called
NoRetry == [pc |-> "off", attempt |-> 0, max_retries |-> 0, backoff_factor |-> 0,
            trace |-> <<>>, result |-> "none"]

\* load_all_statuses not called
NoScan == [pc |-> "off", todo |-> {}, statuses |-> <<>>, result |-> "none"]

\* no update of a bot is in progress
NoBot == [pc |-> "off", label |-> "none", posts |-> 0, raised |-> FALSE]

\* no server loop is running
NoServer == [pc |-> "off", time |-> 0, now |-> 0, last_morning_post |-> None,
             last_evening_post |-> None, is_morning |-> FALSE, success |-> FALSE,
             ran |-> {}, twice |-> {}, skipped |-> {}]

\* a usable directory and nothing but the monitor running
AuxInit ==
    /\ dirFault = "none"
    /\ shared = {}
    /\ retry = NoRetry
    /\ files = <<>>
    /\ scan = NoScan
    /\ bot = NoBot
    /\ server = NoServer

Init ==
    /\ max_events \in 0..MaxEventsBound
    /\ monOf = [t \in Threads |-> 1]
    /\ constructed = [m \in Monitors |-> "ready"]
    /\ state = [m \in Monitors |-> FreshState]
    /\ lock = [m \in Monitors |-> 0]
    /\ pc = [t \in Threads |-> "idle"]
    /\ call = [t \in Threads |-> NoCall]
    /\ cnt = [t \in Threads |-> 0]
    /\ faults = {}
    /\ clock = 1
    /\ nCalls = 0
    /\ invoked = <<>>
    /\ applied = <<>>
    /\ overlap = FALSE
    /\ inodes = <<>>
    /\ tmpIno = 0
    /\ statusIno = 0
    /\ unreadable = FALSE
    /\ wh = [t \in Threads |-> 0]
    /\ wpos = [t \in Threads |-> 0]
    /\ rpc = "idle"
    /\ rIno = 0
    /\ saw = Loaded("none", EmptyDict)
    /\ snapshot = Loaded("none", EmptyDict)
    /\ loaded = Loaded("absent", EmptyDict)
    /\ AuxInit

fsVars == <<inodes, tmpIno, statusIno, unreadable, wh, wpos, rpc, rIno, saw>>
histVars == <<invoked, applied, overlap, loaded>>
\* what no step of record_event / record_run touches
auxVars == <<dirFault, retry, files, scan, bot, server>>
baseVars == <<max_events, monOf, constructed, auxVars>>
cfgVars == <<baseVars, snapshot, shared>>

\* What a document handed out by get_state shows after _state went from old to
\* new while recording ev: the objects named in `shared` are the same objects
\* in both, and the code appends to the events list and stores into the runs
\* dict in place (lines 96-97 and 141-142).
Aliased(snap, old, new, ev) ==
    IF shared = {} \/ snap.kind # "dict" THEN snap
    ELSE IF "top" \in shared THEN Loaded("dict", new)
    ELSE Loaded("dict",
           [k \in DOMAIN snap.doc |->
              IF k = "events" /\ "events" \in shared THEN Append(old["events"], ev)
              ELSE IF k = "runs" /\ "runs" \in shared THEN new["runs"]
              ELSE snap.doc[k]])

\* lines 98-100: a trimmed list is a new list object stored under "events"
SharedAfterRecord(old, maxev) ==
    IF Len(old["events"]) + 1 > maxev /\ "top" \notin shared
    THEN shared \ {"events"}
    ELSE shared

\* lines 117 / 130: the call starts and takes its timestamp, outside the lock
Invoke(t) ==
    /\ pc[t] = "idle"
    /\ constructed[monOf[t]] = "ready"
    /\ nCalls < MaxCalls
    /\ \E c \in [op : {"event"}, kind : EventTypes, run_type : {""},
                 message : {Msg(nCalls + 1)}, metadata : {EmptyDict},
                 timestamp : {clock}]
            \cup [op : {"run"}, kind : Statuses, run_type : RunTypes,
                  message : {""}, metadata : {EmptyDict}, timestamp : {clock}] :
          /\ call' = [call EXCEPT ![t] = c]
          /\ invoked' = Append(invoked, c)
    /\ clock' = clock + 1
    /\ nCalls' = nCalls + 1
    /\ overlap' = (overlap \/ \E u \in Threads \ {t} : pc[u] # "idle")
    /\ pc' = [pc EXCEPT ![t] = "stamped"]
    /\ UNCHANGED <<cfgVars, state, lock, cnt, faults, applied, loaded, fsVars>>

\* variant of the lock: entered without waiting for the holder to leave
AcquireNoWait(t) ==
    /\ pc[t] = "stamped"
    /\ lock' = [lock EXCEPT ![monOf[t]] = t]
    /\ pc' = [pc EXCEPT ![t] = "locked"]
    /\ UNCHANGED <<cfgVars, state, call, cnt, faults, clock, nCalls, histVars, fsVars>>

\* lines 118 / 140: with self._lock
Acquire(t) ==
    /\ pc[t] = "stamped"
    /\ lock[monOf[t]] = 0
    /\ lock' = [lock EXCEPT ![monOf[t]] = t]
    /\ pc' = [pc EXCEPT ![t] = "locked"]
    /\ UNCHANGED <<cfgVars, state, call, cnt, faults, clock, nCalls, histVars, fsVars>>

\* a variant storing an entry into runs for record_event as well
UpsertRunAlways(st, c) ==
    Put(st, "runs",
        Put(Get(st, "runs", EmptyDict), c.run_type,
            RunEntry(c.kind, c.timestamp, c.message, c.metadata)))

\* lines 141-142: runs[run_type] = run_entry (record_run only)
UpsertRun(st, c) ==
    IF c.op = "run"
    THEN Put(st, "runs",
             Put(Get(st, "runs", EmptyDict), c.run_type,
                 RunEntry(c.kind, c.timestamp, c.message, c.metadata)))
    ELSE st

\* variant of lines 103-107: every event stamps last_success
StampEventAlways(st, ev, maxev) ==
    LET st1 == Put(st, "events", AppendTrim(Get(st, "events", <<>>), ev, maxev))
        st2 == Put(st1, "last_updated", ev.timestamp)
    IN  Put(st2, "last_success", ev.timestamp)

\* lines 96-104 / 107: events, last_updated and the last_success / last_failure stamp
StampEvent(st, ev, maxev) ==
    LET st1 == Put(st, "events", AppendTrim(Get(st, "events", <<>>), ev, maxev))
        st2 == Put(st1, "last_updated", ev.timestamp)
    IN  IF ev.type = "success" THEN Put(st2, "last_success", ev.timestamp)
        ELSE IF ev.type = "error" THEN Put(st2, "last_failure", ev.timestamp)
        ELSE st2

\* variant of lines 105 / 108: an error is counted as a success
CountKeySuccessOnly(type) == "success_count"

\* lines 105 / 108: the counter an event type raises
CountKey(type) == IF type = "success" THEN "success_count" ELSE "failure_count"

\* record_run lines 141-159 and _record_event_locked lines 88-105/108, up to the
\* read of the counter
RecordEventLocked(t) ==
    LET m == monOf[t]
        ev == EventOfCall(call[t])
    IN  /\ pc[t] = "locked"
        /\ state' = [state EXCEPT ![m] = StampEvent(UpsertRun(state[m], call[t]), ev, max_events)]
        /\ applied' = Append(applied, ev)
        /\ IF ev.type \in {"success", "error"}
           THEN /\ cnt' = [cnt EXCEPT ![t] = Get(state[m], CountKey(ev.type), 0)]
                /\ pc' = [pc EXCEPT ![t] = "count"]
           ELSE /\ cnt' = cnt
                /\ pc' = [pc EXCEPT ![t] = "save"]
        /\ snapshot' = Aliased(snapshot, state[m], state'[m], ev)
        /\ shared' = SharedAfterRecord(state[m], max_events)
        /\ UNCHANGED <<baseVars, lock, call, faults, clock, nCalls, invoked, overlap,
                       loaded, fsVars>>

\* a variant storing 1 whatever the counter was
StoreCountReset(t) ==
    LET m == monOf[t]
        ev == EventOfCall(call[t])
    IN  /\ pc[t] = "count"
        /\ state' = [state EXCEPT ![m] = Put(state[m], CountKey(ev.type), 1)]
        /\ pc' = [pc EXCEPT ![t] = "save"]
        /\ snapshot' = IF "top" \in shared THEN Loaded("dict", state'[m]) ELSE snapshot
        /\ UNCHANGED <<baseVars, shared, lock, call, cnt, faults, clock, nCalls, histVars,
                       fsVars>>

\* lines 105 / 108: the counter is stored as the value read plus one
StoreCount(t) ==
    LET m == monOf[t]
        ev == EventOfCall(call[t])
    IN  /\ pc[t] = "count"
        /\ state' = [state EXCEPT ![m] = Put(state[m], CountKey(ev.type), cnt[t] + 1)]
        /\ pc' = [pc EXCEPT ![t] = "save"]
        /\ snapshot' = IF "top" \in shared THEN Loaded("dict", state'[m]) ELSE snapshot
        /\ UNCHANGED <<baseVars, shared, lock, call, cnt, faults, clock, nCalls, histVars,
                       fsVars>>

\* variant of _save_state: the status file itself is opened for writing
OpenInPlace(t) ==
    /\ pc[t] = "save"
    /\ dirFault = "none"
    /\ IF statusIno = 0
       THEN /\ statusIno' = FreshIno
            /\ wh' = [wh EXCEPT ![t] = FreshIno]
       ELSE /\ statusIno' = statusIno
            /\ wh' = [wh EXCEPT ![t] = statusIno]
    /\ wpos' = [wpos EXCEPT ![t] = 0]
    /\ pc' = [pc EXCEPT ![t] = "writing"]
    /\ UNCHANGED <<tmpIno, rIno, rpc, saw, unreadable>>
    /\ inodes' = Keep([i \in DOMAIN inodes \cup {statusIno'} |->
                          IF i = statusIno' THEN <<>> ELSE inodes[i]], RefsNext)
    /\ UNCHANGED <<cfgVars, state, lock, call, cnt, faults, clock, nCalls, histVars>>

\* line 75: tmp_path.open("w") creates the temp file or truncates the one there
OpenTmp(t) ==
    /\ pc[t] = "save"
    /\ dirFault = "none"
    /\ IF tmpIno = 0
       THEN /\ tmpIno' = FreshIno
            /\ wh' = [wh EXCEPT ![t] = FreshIno]
       ELSE /\ tmpIno' = tmpIno
            /\ wh' = [wh EXCEPT ![t] = tmpIno]
    /\ wpos' = [wpos EXCEPT ![t] = 0]
    /\ pc' = [pc EXCEPT ![t] = "writing"]
    /\ UNCHANGED <<statusIno, rIno, rpc, saw, unreadable>>
    /\ inodes' = Keep([i \in DOMAIN inodes \cup {tmpIno'} |->
                          IF i = tmpIno' THEN <<>> ELSE inodes[i]], RefsNext)
    /\ UNCHANGED <<cfgVars, state, lock, call, cnt, faults, clock, nCalls, histVars>>

\* where the write buffer may be flushed before the close: after the first
\* unit, or after all but the last
FlushPoints(data) == {1, Len(data) - 1}

\* line 76: the buffer is flushed once before the close, after k units
Flush(t) ==
    LET data == JsonDump(state[monOf[t]])
    IN  /\ pc[t] = "writing"
        /\ wpos[t] = 0
        /\ \E k \in FlushPoints(data) :
              /\ inodes' = [inodes EXCEPT ![wh[t]] = WriteAt(@, 0, SubSeq(data, 1, k))]
              /\ wpos' = [wpos EXCEPT ![t] = k]
        /\ UNCHANGED <<cfgVars, state, lock, pc, call, cnt, faults, clock, nCalls, histVars,
                       tmpIno, statusIno, unreadable, wh, rpc, rIno, saw>>

\* lines 75-76: leaving the with block writes the rest and closes the handle
CloseTmp(t) ==
    LET data == JsonDump(state[monOf[t]])
    IN  /\ pc[t] = "writing"
        /\ wh' = [wh EXCEPT ![t] = 0]
        /\ wpos' = [wpos EXCEPT ![t] = 0]
        /\ pc' = [pc EXCEPT ![t] = "replace"]
        /\ UNCHANGED <<tmpIno, statusIno, rIno, rpc, saw, unreadable>>
        /\ inodes' = Keep([inodes EXCEPT ![wh[t]] =
                              WriteAt(@, wpos[t], SubSeq(data, wpos[t] + 1, Len(data)))],
                          RefsNext)
        /\ UNCHANGED <<cfgVars, state, lock, call, cnt, faults, clock, nCalls, histVars>>

\* line 77: os.replace(tmp_path, self.status_file); FileNotFoundError is logged
Replace(t) ==
    /\ pc[t] = "replace"
    /\ IF tmpIno = 0
       THEN UNCHANGED <<tmpIno, statusIno, unreadable>>
       ELSE /\ statusIno' = tmpIno
            /\ tmpIno' = 0
            /\ unreadable' = FALSE
    /\ pc' = [pc EXCEPT ![t] = "release"]
    /\ UNCHANGED <<wh, wpos, rIno, rpc, saw>>
    /\ inodes' = Keep(inodes, RefsNext)
    /\ UNCHANGED <<cfgVars, state, lock, call, cnt, faults, clock, nCalls, histVars>>

\* a failure handler that also removes the status file
SaveFailUnlink(t) ==
    /\ pc[t] \in {"save", "writing", "replace"}
    /\ wh' = [wh EXCEPT ![t] = 0]
    /\ wpos' = [wpos EXCEPT ![t] = 0]
    /\ pc' = [pc EXCEPT ![t] = "release"]
    /\ statusIno' = 0
    /\ UNCHANGED <<tmpIno, rIno, rpc, saw, unreadable>>
    /\ inodes' = Keep(inodes, RefsNext)
    /\ UNCHANGED <<cfgVars, state, lock, call, cnt, faults, clock, nCalls, histVars>>

\* lines 78-79: an OSError from open, write or replace is logged and dropped
SaveFail(t) ==
    /\ pc[t] \in {"save", "writing", "replace"}
    /\ wh' = [wh EXCEPT ![t] = 0]
    /\ wpos' = [wpos EXCEPT ![t] = 0]
    /\ pc' = [pc EXCEPT ![t] = "release"]
    /\ UNCHANGED <<tmpIno, statusIno, rIno, rpc, saw, unreadable>>
    /\ inodes' = Keep(inodes, RefsNext)
    /\ UNCHANGED <<cfgVars, state, lock, call, cnt, faults, clock, nCalls, histVars>>

\* lines 118-120 / 140-160: the with block ends, the call returns
Release(t) ==
    /\ pc[t] = "release"
    /\ lock' = [lock EXCEPT ![monOf[t]] = 0]
    /\ pc' = [pc EXCEPT ![t] = "idle"]
    /\ call' = [call EXCEPT ![t] = NoCall]
    /\ cnt' = [cnt EXCEPT ![t] = 0]
    /\ UNCHANGED <<cfgVars, state, faults, clock, nCalls, histVars, fsVars>>

\* another process opens the status file
ReaderOpen ==
    /\ rpc = "idle"
    /\ IF statusIno = 0
       THEN /\ saw' = Loaded("absent", EmptyDict)
            /\ UNCHANGED <<rpc, rIno>>
       ELSE /\ rpc' = "open"
            /\ rIno' = statusIno
            /\ saw' = Loaded("none", EmptyDict)
    /\ UNCHANGED <<cfgVars, state, lock, pc, call, cnt, faults, clock, nCalls, histVars,
                   inodes, tmpIno, statusIno, unreadable, wh, wpos>>

\* and reads the file it opened
ReaderRead ==
    /\ rpc = "open"
    /\ saw' = JsonLoad(inodes[rIno])
    /\ rpc' = "idle"
    /\ rIno' = 0
    /\ UNCHANGED <<tmpIno, statusIno, wh, wpos, unreadable>>
    /\ inodes' = Keep(inodes, RefsNext)
    /\ UNCHANGED <<cfgVars, state, lock, pc, call, cnt, faults, clock, nCalls, histVars>>

Next ==
    \/ \E t \in Threads : Invoke(t)
    \/ \E t \in Threads : Acquire(t)
    \/ \E t \in Threads : RecordEventLocked(t)
    \/ \E t \in Threads : StoreCount(t)
    \/ \E t \in Threads : OpenTmp(t)
    \/ \E t \in Threads : Flush(t)
    \/ \E t \in Threads : CloseTmp(t)
    \/ \E t \in Threads : Replace(t)
    \/ \E t \in Threads : SaveFail(t)
    \/ \E t \in Threads : Release(t)

Spec == Init /\ [][Next]_vars

-----------------------------------------------------------------------------
(* One writer thread and a reader of the status file in another process.   *)

NextRead ==
    \/ Invoke(1)
    \/ Acquire(1)
    \/ RecordEventLocked(1)
    \/ StoreCount(1)
    \/ OpenTmp(1)
    \/ Flush(1)
    \/ CloseTmp(1)
    \/ Replace(1)
    \/ SaveFail(1)
    \/ Release(1)
    \/ ReaderOpen
    \/ ReaderRead

SpecRead == Init /\ [][NextRead]_vars

-----------------------------------------------------------------------------
(* Two BotMonitor objects for the same bot name and directory, each with   *)
(* its own lock and its own in-memory document, one caller each.           *)

InitTwo ==
    /\ max_events \in 0..MaxEventsBound
    /\ monOf = [t \in Threads |-> t]
    /\ constructed = [m \in Monitors |-> "ready"]
    /\ state = [m \in Monitors |-> FreshState]
    /\ lock = [m \in Monitors |-> 0]
    /\ pc = [t \in Threads |-> "idle"]
    /\ call = [t \in Threads |-> NoCall]
    /\ cnt = [t \in Threads |-> 0]
    /\ faults = {}
    /\ clock = 1
    /\ nCalls = 0
    /\ invoked = <<>>
    /\ applied = <<>>
    /\ overlap = FALSE
    /\ inodes = <<>>
    /\ tmpIno = 0
    /\ statusIno = 0
    /\ unreadable = FALSE
    /\ wh = [t \in Threads |-> 0]
    /\ wpos = [t \in Threads |-> 0]
    /\ rpc = "idle"
    /\ rIno = 0
    /\ saw = Loaded("none", EmptyDict)
    /\ snapshot = Loaded("none", EmptyDict)
    /\ loaded = Loaded("absent", EmptyDict)
    /\ AuxInit

SpecTwo == InitTwo /\ [][Next]_vars

-----------------------------------------------------------------------------
(* Construction over a status file left by an earlier process; the saves   *)
(* that follow meet no OSError.                                            *)

\* a complete document written by an earlier run
OldEvent == NewEvent(0, "info", "old", EmptyDict)
SampleDoc ==
    [k \in Required |->
        CASE k = "bot_name" -> "old_bot"
          [] k \in {"last_updated", "last_success", "last_failure"} -> 0
          [] k = "success_count" -> 3
          [] k = "failure_count" -> 2
          [] k = "events" -> <<OldEvent>>
          [] OTHER -> [r \in {"evening"} |-> RunEntry("error", 0, "", EmptyDict)]]

Restrict(d, S) == [k \in S |-> d[k]]

\* what the status file may hold when the monitor is constructed
InitialFiles ==
    {[kind |-> "absent", content |-> <<>>],
     [kind |-> "unreadable", content |-> JsonDump(SampleDoc)],
     [kind |-> "badutf8", content |-> <<BadByte>>],
     [kind |-> "invalid", content |-> <<Open>>],
     [kind |-> "list", content |-> <<Punct("["), Punct("]")>>]}
    \cup {[kind |-> "partial", content |-> JsonDump(Restrict(SampleDoc, S))] :
             S \in SUBSET Required}

InitLoad ==
    /\ max_events \in 0..MaxEventsBound
    /\ monOf = [t \in Threads |-> 1]
    /\ constructed = [m \in Monitors |-> "new"]
    /\ state = [m \in Monitors |-> EmptyDict]
    /\ lock = [m \in Monitors |-> 0]
    /\ pc = [t \in Threads |-> "idle"]
    /\ call = [t \in Threads |-> NoCall]
    /\ cnt = [t \in Threads |-> 0]
    /\ faults = {}
    /\ clock = 1
    /\ nCalls = 0
    /\ invoked = <<>>
    /\ applied = <<>>
    /\ overlap = FALSE
    /\ tmpIno = 0
    /\ wh = [t \in Threads |-> 0]
    /\ wpos = [t \in Threads |-> 0]
    /\ rpc = "idle"
    /\ rIno = 0
    /\ saw = Loaded("none", EmptyDict)
    /\ snapshot = Loaded("none", EmptyDict)
    /\ AuxInit
    /\ \E f \in InitialFiles :
          /\ loaded = Loaded(f.kind, IF f.kind = "partial" THEN JsonLoad(f.content).doc
                                     ELSE EmptyDict)
          /\ unreadable = (f.kind = "unreadable")
          /\ IF f.kind = "absent"
             THEN statusIno = 0 /\ inodes = <<>>
             ELSE statusIno = 1 /\ inodes = <<f.content>>

\* line 47: Path.exists() is stat(); it answers False on ENOENT and ENOTDIR
\* and lets any other OSError through
Exists ==
    IF dirFault = "EACCES" THEN "PermissionError"
    ELSE IF dirFault = "none" /\ statusIno # 0 THEN "True"
    ELSE "False"

\* a load that ignores the file
LoadStateFresh == Loaded("ok", ApplyDefaults(EmptyDict))

\* lines 45-57: _load_state; the kind is "ok" or the exception it does not catch
LoadState ==
    IF Exists = "PermissionError" THEN Loaded("PermissionError", EmptyDict)
    ELSE IF Exists = "False" THEN Loaded("ok", ApplyDefaults(EmptyDict))
    ELSE IF unreadable THEN Loaded("ok", ApplyDefaults(EmptyDict))
    ELSE LET data == JsonLoad(inodes[statusIno])
         IN  IF data.kind = "dict" THEN Loaded("ok", ApplyDefaults(data.doc))
             ELSE IF data.kind = "UnicodeDecodeError"
                  THEN Loaded("UnicodeDecodeError", EmptyDict)
             ELSE Loaded("ok", ApplyDefaults(EmptyDict))

\* lines 24-42: BotMonitor.__init__; an OSError of mkdir is logged and dropped
Construct(m) ==
    /\ constructed[m] = "new"
    /\ IF LoadState.kind = "ok"
       THEN /\ state' = [state EXCEPT ![m] = LoadState.doc]
            /\ constructed' = [constructed EXCEPT ![m] = "ready"]
            /\ faults' = faults
       ELSE /\ state' = state
            /\ constructed' = [constructed EXCEPT ![m] = "raised"]
            /\ faults' = faults \cup {LoadState.kind}
    /\ UNCHANGED <<max_events, monOf, snapshot, shared, auxVars, lock, pc, call, cnt,
                   clock, nCalls, histVars, fsVars>>

\* lines 162-166: get_state, a copy made by a JSON round trip under the lock
\* variant of get_state returning dict(self._state): a new top-level dict
\* holding the same events list, runs dict and entries
GetStateShallow(t) ==
    /\ pc[t] = "idle"
    /\ constructed[monOf[t]] = "ready"
    /\ lock[monOf[t]] = 0
    /\ snapshot' = Loaded("dict", state[monOf[t]])
    /\ shared' = {"events", "runs", "items"}
    /\ UNCHANGED <<max_events, monOf, constructed, auxVars, state, lock, pc, call, cnt,
                   faults, clock, nCalls, histVars, fsVars>>

\* lines 162-166: get_state; json.loads(json.dumps(...)) builds new objects
\* at every level
GetState(t) ==
    /\ pc[t] = "idle"
    /\ constructed[monOf[t]] = "ready"
    /\ lock[monOf[t]] = 0
    /\ snapshot' = JsonLoad(JsonDump(state[monOf[t]]))
    /\ shared' = {}
    /\ UNCHANGED <<max_events, monOf, constructed, auxVars, state, lock, pc, call, cnt,
                   faults, clock, nCalls, histVars, fsVars>>

NextLoad ==
    \/ Construct(1)
    \/ Invoke(1)
    \/ Acquire(1)
    \/ RecordEventLocked(1)
    \/ StoreCount(1)
    \/ OpenTmp(1)
    \/ CloseTmp(1)
    \/ Replace(1)
    \/ Release(1)
    \/ GetState(1)

SpecLoad == InitLoad /\ [][NextLoad]_vars

-----------------------------------------------------------------------------
(* A second BotMonitor for the same job and directory is constructed while *)
(* the first one records: what it loads is what the first one saved.       *)

\* the status file before the first monitor: none, or a complete document;
\* max_events is 0 (nothing trimmed) or the bound
InitReload ==
    /\ max_events \in {0, MaxEventsBound}
    /\ monOf = [t \in Threads |-> 1]
    /\ constructed = [m \in Monitors |-> "new"]
    /\ state = [m \in Monitors |-> EmptyDict]
    /\ lock = [m \in Monitors |-> 0]
    /\ pc = [t \in Threads |-> "idle"]
    /\ call = [t \in Threads |-> NoCall]
    /\ cnt = [t \in Threads |-> 0]
    /\ faults = {}
    /\ clock = 1
    /\ nCalls = 0
    /\ invoked = <<>>
    /\ applied = <<>>
    /\ overlap = FALSE
    /\ tmpIno = 0
    /\ unreadable = FALSE
    /\ wh = [t \in Threads |-> 0]
    /\ wpos = [t \in Threads |-> 0]
    /\ rpc = "idle"
    /\ rIno = 0
    /\ saw = Loaded("none", EmptyDict)
    /\ snapshot = Loaded("none", EmptyDict)
    /\ AuxInit
    /\ \/ /\ loaded = Loaded("absent", EmptyDict)
          /\ statusIno = 0
          /\ inodes = <<>>
       \/ /\ loaded = Loaded("complete", SampleDoc)
          /\ statusIno = 1
          /\ inodes = <<JsonDump(SampleDoc)>>

\* the second monitor is constructed once the first one is, at any moment
NextReload ==
    \/ Construct(1)
    \/ Invoke(1)
    \/ Acquire(1)
    \/ RecordEventLocked(1)
    \/ StoreCount(1)
    \/ OpenTmp(1)
    \/ CloseTmp(1)
    \/ Replace(1)
    \/ SaveFail(1)
    \/ Release(1)
    \/ GetState(1)
    \/ (constructed[1] = "ready" /\ Construct(2))

SpecReload == InitReload /\ [][NextReload]_vars

-----------------------------------------------------------------------------
(* Calls that end by an exception nothing catches: the mutation raises     *)
(* (AttributeError on a document whose events is not a list), or json.dump *)
(* raises TypeError on metadata it cannot serialize. The with block of     *)
(* lines 118 / 140 is left and the lock released.                          *)

\* record_event with a type that counts nothing, or record_run of a success
InvokePlain(t) ==
    /\ pc[t] = "idle"
    /\ constructed[monOf[t]] = "ready"
    /\ nCalls < MaxCalls
    /\ \E c \in {[op |-> "event", kind |-> "info", run_type |-> "",
                   message |-> Msg(nCalls + 1), metadata |-> EmptyDict,
                   timestamp |-> clock],
                  [op |-> "run", kind |-> "success", run_type |-> "morning",
                   message |-> "", metadata |-> EmptyDict, timestamp |-> clock]} :
          /\ call' = [call EXCEPT ![t] = c]
          /\ invoked' = Append(invoked, c)
    /\ clock' = clock + 1
    /\ nCalls' = nCalls + 1
    /\ overlap' = (overlap \/ \E u \in Threads \ {t} : pc[u] # "idle")
    /\ pc' = [pc EXCEPT ![t] = "stamped"]
    /\ UNCHANGED <<cfgVars, state, lock, cnt, faults, applied, loaded, fsVars>>

\* a variant with lock.acquire() ... lock.release() and no try / finally: the
\* exception leaves the call with the lock still held
UnwindKeepLock(t) ==
    /\ pc[t] \in {"locked", "writing"}
    /\ state' = IF pc[t] = "locked"
                THEN [state EXCEPT ![monOf[t]] = UpsertRun(@, call[t])]
                ELSE state
    /\ faults' = faults \cup {IF pc[t] = "locked" THEN "AttributeError" ELSE "TypeError"}
    /\ pc' = [pc EXCEPT ![t] = "idle"]
    /\ call' = [call EXCEPT ![t] = NoCall]
    /\ cnt' = [cnt EXCEPT ![t] = 0]
    /\ wh' = [wh EXCEPT ![t] = 0]
    /\ wpos' = [wpos EXCEPT ![t] = 0]
    /\ UNCHANGED <<tmpIno, statusIno, rIno, rpc, saw, unreadable>>
    /\ inodes' = Keep(inodes, RefsNext)
    /\ UNCHANGED <<cfgVars, lock, clock, nCalls, histVars>>

\* lines 118-120 / 140-160: an exception raised inside the with block leaves
\* it: at the mutation (after runs was stored, lines 141-142) or in json.dump
\* (line 76, the temp file stays as far as it was written)
Unwind(t) ==
    /\ pc[t] \in {"locked", "writing"}
    /\ state' = IF pc[t] = "locked"
                THEN [state EXCEPT ![monOf[t]] = UpsertRun(@, call[t])]
                ELSE state
    /\ faults' = faults \cup {IF pc[t] = "locked" THEN "AttributeError" ELSE "TypeError"}
    /\ lock' = [lock EXCEPT ![monOf[t]] = 0]
    /\ pc' = [pc EXCEPT ![t] = "idle"]
    /\ call' = [call EXCEPT ![t] = NoCall]
    /\ cnt' = [cnt EXCEPT ![t] = 0]
    /\ wh' = [wh EXCEPT ![t] = 0]
    /\ wpos' = [wpos EXCEPT ![t] = 0]
    /\ UNCHANGED <<tmpIno, statusIno, rIno, rpc, saw, unreadable>>
    /\ inodes' = Keep(inodes, RefsNext)
    /\ UNCHANGED <<cfgVars, clock, nCalls, histVars>>

\* what thread t does once its call is made
Running(t) ==
    \/ Acquire(t)
    \/ RecordEventLocked(t)
    \/ StoreCount(t)
    \/ OpenTmp(t)
    \/ CloseTmp(t)
    \/ Replace(t)
    \/ SaveFail(t)
    \/ Release(t)
    \/ Unwind(t)

InitLock == Init /\ max_events = MaxEventsBound

NextLock ==
    \/ \E t \in Threads : InvokePlain(t)
    \/ \E t \in Threads : Running(t)
    \/ \E t \in Threads : GetState(t)

\* a thread that can take a step is scheduled in the end
SpecLock == InitLock /\ [][NextLock]_vars /\ \A t \in Threads : WF_vars(Running(t))

-----------------------------------------------------------------------------
(* The caller of get_state edits the document it was given, between calls. *)

Edits == {"top", "events", "runs", "items"}
Edited == [edited |-> 1]

\* the document after the edit: a top-level field is set, the events list is
\* cleared, a key is stored into runs, or metadata is stored into the oldest
\* event
EditDoc(doc, e) ==
    CASE e = "top" -> Put(doc, "bot_name", "edited")
      [] e = "events" -> Put(doc, "events", <<>>)
      [] e = "runs" -> Put(doc, "runs", Put(doc["runs"], "edited", Edited))
      [] e = "items" ->
            Put(doc, "events",
                [i \in DOMAIN doc["events"] |->
                    IF i = 1 THEN Put(doc["events"][i], "metadata", Edited)
                    ELSE doc["events"][i]])

\* _state after the edit of an object it shares with the snapshot; the event
\* object edited is found by its value, events being pairwise different
EditShared(st, e) ==
    IF e \notin shared THEN st
    ELSE IF e # "items" THEN EditDoc(st, e)
    ELSE LET item == snapshot.doc["events"][1]
         IN  Put(st, "events",
                 [i \in DOMAIN st["events"] |->
                     IF st["events"][i] = item THEN Put(item, "metadata", Edited)
                     ELSE st["events"][i]])

MutateSnapshot(t) ==
    /\ pc[t] = "idle"
    /\ snapshot.kind = "dict"
    /\ \E e \in Edits :
          /\ e = "items" => snapshot.doc["events"] # <<>>
          /\ snapshot' = Loaded("dict", EditDoc(snapshot.doc, e))
          /\ state' = [state EXCEPT ![monOf[t]] = EditShared(state[monOf[t]], e)]
    /\ UNCHANGED <<baseVars, shared, lock, pc, call, cnt, faults, clock, nCalls, histVars,
                   fsVars>>

NextSnap ==
    \/ Invoke(1)
    \/ Acquire(1)
    \/ RecordEventLocked(1)
    \/ StoreCount(1)
    \/ OpenTmp(1)
    \/ CloseTmp(1)
    \/ Replace(1)
    \/ Release(1)
    \/ GetState(1)
    \/ MutateSnapshot(1)

SpecSnap == Init /\ [][NextSnap]_vars

-----------------------------------------------------------------------------
(* post_with_retry (src/utils.py): a bounded loop around client.create_tweet *)
(* with exponential backoff. The trace lists its calls and sleeps.          *)

\* what one call of client.create_tweet does: it returns, raises an exception
\* of class Exception, or raises one outside it (KeyboardInterrupt, SystemExit)
Outcomes == {"ok", "Exception", "BaseException"}

\* the ** operator on a non-negative base; 0 ** 0 is 1
RECURSIVE Pow(_, _)
Pow(b, n) == IF n = 0 THEN 1 ELSE b * Pow(b, n - 1)

\* a variant of line 37 without the offset of the exponent
SleepTimeNoOffset(backoff_factor, attempt) == Pow(backoff_factor, attempt)

\* line 37
SleepTime(backoff_factor, attempt) == Pow(backoff_factor, attempt - 1)

CallEv(n, out) == [ev |-> "call", n |-> n, out |-> out]
SleepEv(d) == [ev |-> "sleep", n |-> d, out |-> ""]

\* every variable but retry
notRetry == <<max_events, monOf, constructed, state, lock, pc, call, cnt, faults, clock,
              nCalls, histVars, fsVars, snapshot, shared, dirFault, files, scan, bot,
              server>>

\* the monitor left alone, on a fresh directory
Quiet ==
    /\ max_events = MaxEventsBound
    /\ monOf = [t \in Threads |-> 1]
    /\ constructed = [m \in Monitors |-> "ready"]
    /\ state = [m \in Monitors |-> FreshState]
    /\ lock = [m \in Monitors |-> 0]
    /\ pc = [t \in Threads |-> "idle"]
    /\ call = [t \in Threads |-> NoCall]
    /\ cnt = [t \in Threads |-> 0]
    /\ faults = {}
    /\ clock = 1
    /\ nCalls = 0
    /\ invoked = <<>>
    /\ applied = <<>>
    /\ overlap = FALSE
    /\ inodes = <<>>
    /\ tmpIno = 0
    /\ statusIno = 0
    /\ unreadable = FALSE
    /\ wh = [t \in Threads |-> 0]
    /\ wpos = [t \in Threads |-> 0]
    /\ rpc = "idle"
    /\ rIno = 0
    /\ saw = Loaded("none", EmptyDict)
    /\ snapshot = Loaded("none", EmptyDict)
    /\ loaded = Loaded("absent", EmptyDict)
    /\ shared = {}

\* line 27: the call, with its arguments
InitRetry ==
    /\ Quiet
    /\ dirFault = "none"
    /\ files = <<>>
    /\ scan = NoScan
    /\ bot = NoBot
    /\ server = NoServer
    /\ \E n \in 0..MaxRetriesBound, b \in 0..MaxBackoff :
          retry = [pc |-> "loop", attempt |-> 0, max_retries |-> n, backoff_factor |-> b,
                   trace |-> <<>>, result |-> "none"]

\* a loop head that admits one attempt more
RetryNextExtra ==
    /\ retry.pc = "loop"
    /\ IF retry.attempt <= retry.max_retries
       THEN retry' = [retry EXCEPT !.attempt = @ + 1, !.pc = "call"]
       ELSE retry' = [retry EXCEPT !.pc = "done", !.result = "False"]
    /\ UNCHANGED notRetry

\* line 29, and lines 40-41 when range(1, max_retries + 1) is exhausted
RetryNext ==
    /\ retry.pc = "loop"
    /\ IF retry.attempt < retry.max_retries
       THEN retry' = [retry EXCEPT !.attempt = @ + 1, !.pc = "call"]
       ELSE retry' = [retry EXCEPT !.pc = "done", !.result = "False"]
    /\ UNCHANGED notRetry

\* a call whose success does not end the loop
RetryCallNoReturn ==
    /\ retry.pc = "call"
    /\ \E out \in Outcomes :
          retry' = [retry EXCEPT
                      !.trace = Append(@, CallEv(retry.attempt, out)),
                      !.pc = IF out = "BaseException" THEN "done"
                             ELSE IF out = "ok" THEN "loop" ELSE "except",
                      !.result = IF out = "BaseException" THEN "raised" ELSE @]
    /\ UNCHANGED notRetry

\* a call without the except clause
RetryCallNoCatch ==
    /\ retry.pc = "call"
    /\ \E out \in Outcomes :
          retry' = [retry EXCEPT
                      !.trace = Append(@, CallEv(retry.attempt, out)),
                      !.pc = "done",
                      !.result = IF out = "ok" THEN "True" ELSE "raised"]
    /\ UNCHANGED notRetry

\* lines 30-34: the try block; except Exception takes the exceptions of that
\* class, any other leaves the function
RetryCall ==
    /\ retry.pc = "call"
    /\ \E out \in Outcomes :
          retry' = [retry EXCEPT
                      !.trace = Append(@, CallEv(retry.attempt, out)),
                      !.pc = IF out = "Exception" THEN "except" ELSE "done",
                      !.result = IF out = "ok" THEN "True"
                                 ELSE IF out = "BaseException" THEN "raised" ELSE @]
    /\ UNCHANGED notRetry

\* lines 35-39: the handler; it sleeps unless this was the last attempt
RetrySleep ==
    /\ retry.pc = "except"
    /\ IF retry.attempt < retry.max_retries
       THEN retry' = [retry EXCEPT
                        !.trace = Append(@, SleepEv(SleepTime(retry.backoff_factor,
                                                              retry.attempt))),
                        !.pc = "loop"]
       ELSE retry' = [retry EXCEPT !.pc = "loop"]
    /\ UNCHANGED notRetry

NextRetry ==
    \/ RetryNext
    \/ RetryCall
    \/ RetrySleep

SpecRetry == InitRetry /\ [][NextRetry]_vars

-----------------------------------------------------------------------------
(* load_all_statuses: the scan of a directory of status files.             *)

\* the file names the directory may hold, in sorted order
ScanNames ==
    <<[job |-> "a", suffix |-> "_status.json"],
      [job |-> "b", suffix |-> "_status.json"],
      [job |-> "b", suffix |-> "_status.tmp"],
      [job |-> "c", suffix |-> "_status.json"]>>

\* a pattern that takes every suffix after "_status"
MatchesAnyStatus(name) == name.suffix \in {"_status.json", "_status.tmp"}

\* line 176: glob("*_status.json")
Matches(name) == name.suffix = "_status.json"

\* the document a valid file of a job holds
DocOf(job) == Put(FreshState, "bot_name", job)

FileKinds == {"absent", "valid", "invalid", "badutf8", "unreadable", "list"}

\* the bytes of a file of a kind
ContentOf(kind, job) ==
    CASE kind = "badutf8" -> <<BadByte>>
      [] kind = "invalid" -> <<Open>>
      [] kind = "list" -> <<Punct("["), Punct("]")>>
      [] OTHER -> JsonDump(DocOf(job))

\* every variable but scan
notScan == <<max_events, monOf, constructed, state, lock, pc, call, cnt, faults, clock,
             nCalls, histVars, fsVars, snapshot, shared, dirFault, retry, files, bot,
             server>>

\* any mix of files; the directory may be missing (ENOENT) or the path may
\* not be a directory (ENOTDIR)
InitScan ==
    /\ Quiet
    /\ retry = NoRetry
    /\ bot = NoBot
    /\ server = NoServer
    /\ scan = [pc |-> "start", todo |-> {}, statuses |-> <<>>, result |-> "none"]
    /\ dirFault \in {"none", "ENOENT", "ENOTDIR"}
    /\ files \in [DOMAIN ScanNames -> FileKinds]
    /\ dirFault # "none" => \A i \in DOMAIN files : files[i] = "absent"

\* a variant that creates the directory when it is missing
ScanStartMkdir ==
    /\ scan.pc = "start"
    /\ IF dirFault = "ENOTDIR"
       THEN /\ scan' = [scan EXCEPT !.pc = "done", !.result = "returned"]
            /\ dirFault' = dirFault
       ELSE /\ scan' = [scan EXCEPT
                          !.pc = "loop",
                          !.todo = {i \in DOMAIN files :
                                       files[i] # "absent" /\ Matches(ScanNames[i])}]
            /\ dirFault' = "none"
    /\ UNCHANGED <<max_events, monOf, constructed, state, lock, pc, call, cnt, faults,
                   clock, nCalls, histVars, fsVars, snapshot, shared, retry, files,
                   bot, server>>

\* lines 171-176: no directory, no result; else the matching names
ScanStart ==
    /\ scan.pc = "start"
    /\ IF dirFault # "none"
       THEN scan' = [scan EXCEPT !.pc = "done", !.result = "returned"]
       ELSE scan' = [scan EXCEPT
                       !.pc = "loop",
                       !.todo = {i \in DOMAIN files :
                                    files[i] # "absent" /\ Matches(ScanNames[i])}]
    /\ UNCHANGED notScan

\* lines 176-183: the next name in sorted order is opened and parsed
ScanFile ==
    /\ scan.pc = "loop"
    /\ scan.todo # {}
    /\ LET i == CHOOSE j \in scan.todo : \A k \in scan.todo : j <= k
           data == JsonLoad(ContentOf(files[i], ScanNames[i].job))
       IN  IF files[i] = "unreadable"
           THEN scan' = [scan EXCEPT !.todo = @ \ {i}]
           ELSE IF data.kind = "dict"
           THEN scan' = [scan EXCEPT !.todo = @ \ {i},
                                     !.statuses = Append(@, data.doc)]
           ELSE IF data.kind = "UnicodeDecodeError"
           THEN scan' = [scan EXCEPT !.pc = "done", !.result = "UnicodeDecodeError"]
           ELSE scan' = [scan EXCEPT !.todo = @ \ {i}]
    /\ UNCHANGED notScan

\* line 184
ScanReturn ==
    /\ scan.pc = "loop"
    /\ scan.todo = {}
    /\ scan' = [scan EXCEPT !.pc = "done", !.result = "returned"]
    /\ UNCHANGED notScan

NextScan ==
    \/ ScanStart
    \/ ScanFile
    \/ ScanReturn

SpecScan == InitScan /\ [][NextScan]_vars

-----------------------------------------------------------------------------
(* record_run alone: one thread, several run labels, every kind of status. *)

RunLabels == {"morning", "evening"}
RunStatuses == {"success", "error", "warning", "skipped", "partial"}

\* lines 122-138: record_run is called; the timestamp is taken on entry
InvokeRun(t) ==
    /\ pc[t] = "idle"
    /\ constructed[monOf[t]] = "ready"
    /\ nCalls < MaxRunCalls
    /\ \E c \in [op : {"run"}, kind : RunStatuses, run_type : RunLabels,
                 message : {"", Msg(nCalls + 1)}, metadata : {EmptyDict},
                 timestamp : {clock}] :
          \* a message of the caller's is passed with status "success" only
          /\ c.message # "" => c.kind = "success"
          /\ call' = [call EXCEPT ![t] = c]
          /\ invoked' = Append(invoked, c)
    /\ clock' = clock + 1
    /\ nCalls' = nCalls + 1
    /\ overlap' = (overlap \/ \E u \in Threads \ {t} : pc[u] # "idle")
    /\ pc' = [pc EXCEPT ![t] = "stamped"]
    /\ UNCHANGED <<cfgVars, state, lock, cnt, faults, applied, loaded, fsVars>>

NextRuns ==
    \/ InvokeRun(1)
    \/ Acquire(1)
    \/ RecordEventLocked(1)
    \/ StoreCount(1)
    \/ OpenTmp(1)
    \/ CloseTmp(1)
    \/ Replace(1)
    \/ Release(1)

SpecRuns == Init /\ [][NextRuns]_vars

-----------------------------------------------------------------------------
(* Construction and calls when the storage fails: the directory cannot be  *)
(* created or used, the status file cannot be read, a save meets OSError.  *)

\* the status file and the directory the constructor may meet
FaultCases ==
    {[file |-> "absent", dir |-> d] : d \in {"none", "ENOENT", "ENOTDIR", "EACCES"}}
    \cup {[file |-> f, dir |-> "none"] : f \in {"complete", "unreadable"}}

InitFault ==
    /\ max_events \in 0..MaxEventsBound
    /\ monOf = [t \in Threads |-> 1]
    /\ constructed = [m \in Monitors |-> "new"]
    /\ state = [m \in Monitors |-> EmptyDict]
    /\ lock = [m \in Monitors |-> 0]
    /\ pc = [t \in Threads |-> "idle"]
    /\ call = [t \in Threads |-> NoCall]
    /\ cnt = [t \in Threads |-> 0]
    /\ faults = {}
    /\ clock = 1
    /\ nCalls = 0
    /\ invoked = <<>>
    /\ applied = <<>>
    /\ overlap = FALSE
    /\ tmpIno = 0
    /\ wh = [t \in Threads |-> 0]
    /\ wpos = [t \in Threads |-> 0]
    /\ rpc = "idle"
    /\ rIno = 0
    /\ saw = Loaded("none", EmptyDict)
    /\ snapshot = Loaded("none", EmptyDict)
    /\ shared = {}
    /\ retry = NoRetry
    /\ files = <<>>
    /\ scan = NoScan
    /\ bot = NoBot
    /\ server = NoServer
    /\ \E c \in FaultCases :
          /\ dirFault = c.dir
          /\ unreadable = (c.file = "unreadable")
          /\ loaded = Loaded(c.file, EmptyDict)
          /\ IF c.file = "absent"
             THEN statusIno = 0 /\ inodes = <<>>
             ELSE statusIno = 1 /\ inodes = <<JsonDump(SampleDoc)>>

NextFault ==
    \/ Construct(1)
    \/ Invoke(1)
    \/ Acquire(1)
    \/ RecordEventLocked(1)
    \/ StoreCount(1)
    \/ OpenTmp(1)
    \/ Flush(1)
    \/ CloseTmp(1)
    \/ Replace(1)
    \/ SaveFail(1)
    \/ Release(1)

SpecFault == InitFault /\ [][NextFault]_vars

-----------------------------------------------------------------------------
(* Properties.                                                             *)

AllIdle == \A t \in Threads : pc[t] = "idle"

\* the events the invoked calls record, in invocation order
InvokedEvents == [i \in 1..Len(invoked) |-> EventOfCall(invoked[i])]

CountType(seq, ty) == Cardinality({i \in 1..Len(seq) : seq[i].type = ty})

\* timestamp of the last event of type ty in seq, None when there is none
LastOf(seq, ty) ==
    LET idx == {i \in 1..Len(seq) : seq[i].type = ty}
    IN  IF idx = {} THEN None
        ELSE seq[CHOOSE i \in idx : \A j \in idx : j <= i].timestamp

Occurrences(seq, e) == Cardinality({i \in 1..Len(seq) : seq[i] = e})

InCritical(t) == pc[t] \in {"locked", "count", "save", "writing", "replace", "release"}

\* a file content that parses to a JSON object with every required key
IsCompleteDoc(c) ==
    LET r == JsonLoad(c)
    IN  r.kind = "dict" /\ Required \subseteq DOMAIN r.doc

\* C1: after every record_event / record_run call the events list of the
\* in-memory document, and of the saved document, has at most max_events
\* entries, whatever max_events was configured.
C1EventsBounded ==
    /\ Len(state[1]["events"]) <= max_events
    /\ (statusIno # 0 /\ IsCompleteDoc(StatusContent))
          => Len(JsonLoad(StatusContent).doc["events"]) <= max_events

\* C2: from a fresh document, after N > max_events record_event calls made one
\* after the other, events holds exactly the last max_events recorded events,
\* in call order.
C2LastMaxEvents ==
    (/\ AllIdle
     /\ ~overlap
     /\ \A i \in 1..Len(invoked) : invoked[i].op = "event"
     /\ Len(invoked) > max_events)
        => state[1]["events"] =
              SubSeq(InvokedEvents, Len(invoked) - max_events + 1, Len(invoked))

\* C3: from a fresh document, once the calls made so far have returned,
\* success_count is the number of "success" events recorded and failure_count
\* the number of "error" events recorded, evicted ones included.
C3CountersMatch ==
    AllIdle =>
        /\ state[1]["success_count"] = CountType(InvokedEvents, "success")
        /\ state[1]["failure_count"] = CountType(InvokedEvents, "error")

\* a run success and an error have been counted and one of the two events is
\* no longer in the history
C3Witness ==
    /\ AllIdle
    /\ state[1]["success_count"] = 1
    /\ state[1]["failure_count"] = 1
    /\ Len(state[1]["events"]) = 1
    /\ \E i \in 1..Len(invoked) : invoked[i].op = "run"

\* C4: in every reachable state last_success is the timestamp of the most
\* recently recorded "success" event and last_failure that of the most recently
\* recorded "error" event, null when none was recorded.
C4LastStamps ==
    /\ state[1]["last_success"] = LastOf(applied, "success")
    /\ state[1]["last_failure"] = LastOf(applied, "error")

\* a success, then an error: both stamps are set, to different timestamps
C4Witness ==
    /\ Len(applied) = 2
    /\ applied[1].type = "success"
    /\ applied[2].type = "error"
    /\ state[1]["last_success"] = applied[1].timestamp
    /\ state[1]["last_failure"] = applied[2].timestamp

\* C5: the mutate-and-save sequences of concurrent calls on one monitor never
\* overlap, and once all calls have returned the counters count every call and
\* the events list holds every call's event once, unless the history is full.
C5Serialized ==
    /\ \A t, u \in Threads :
          (t # u /\ monOf[t] = monOf[u]) => ~(InCritical(t) /\ InCritical(u))
    /\ AllIdle =>
          /\ state[1]["success_count"] = CountType(InvokedEvents, "success")
          /\ state[1]["failure_count"] = CountType(InvokedEvents, "error")
          /\ \A i \in 1..Len(state[1]["events"]) :
                Occurrences(state[1]["events"], state[1]["events"][i])
                    <= Occurrences(InvokedEvents, state[1]["events"][i])
          /\ \/ Len(state[1]["events"]) = Len(invoked)
             \/ Len(state[1]["events"]) >= max_events

\* two calls that overlapped in time have both returned
C5Witness ==
    /\ AllIdle
    /\ overlap
    /\ Len(invoked) = 2
    /\ Len(state[1]["events"]) = 2

\* position of an event among the invoked calls
InvokedIndex(e) == CHOOSE k \in 1..Len(invoked) : InvokedEvents[k] = e

\* C6: the events of the list are in the order in which record_event /
\* record_run were invoked, for every interleaving of concurrent callers
\* (stated for a history that keeps at least one event).
C6InvocationOrder ==
    max_events >= 1 =>
        \A i, j \in 1..Len(state[1]["events"]) :
            i < j => InvokedIndex(state[1]["events"][i])
                        < InvokedIndex(state[1]["events"][j])

\* what a reader can open or has read is a complete document
C7Complete ==
    /\ statusIno # 0 => IsCompleteDoc(inodes[statusIno])
    /\ rpc = "open" => IsCompleteDoc(inodes[rIno])
    /\ saw.kind \notin {"none", "absent"} =>
          (saw.kind = "dict" /\ Required \subseteq DOMAIN saw.doc)

\* the status path changes only by switching to the complete new document, and
\* a file reachable by a reader is never written in place
C7Switch ==
    /\ statusIno' # statusIno => inodes'[statusIno'] = JsonDump(state[1])
    /\ (statusIno' = statusIno /\ statusIno # 0) => inodes'[statusIno] = inodes[statusIno]
    /\ (rIno' = rIno /\ rIno # 0) => inodes'[rIno] = inodes[rIno]

\* C7: a reader of the status file at any point of a writer's save, also one
\* that fails mid-write, sees the complete old document or the complete new
\* one, never a partly written file.
C7AtomicVisibility == []C7Complete /\ [][C7Switch]_vars

\* the reader holds the status file open while the writer has written a part
\* of the new document
C7Witness ==
    /\ rpc = "open"
    /\ pc[1] = "writing"
    /\ wpos[1] > 0
    /\ inodes[rIno] # JsonDump(state[1])

\* C8: with two writer objects saving to one status file, the status file
\* always holds a complete document.
C8NoCorruption == statusIno # 0 => IsCompleteDoc(StatusContent)

\* C9: when the status file is absent, unreadable, malformed or not a JSON
\* object, construction does not fail and starts from the default document.
C9LoadFailsOpen ==
    (constructed[1] # "new" /\ loaded.kind # "partial") =>
        /\ constructed[1] = "ready"
        /\ faults = {}
        /\ nCalls = 0 => state[1] = FreshState

\* C10: a persisted document lacking any subset of the required keys is loaded
\* with each missing key at its default and each present key kept, and no later
\* record_event / record_run / get_state on it raises.
C10PartialRepaired ==
    (constructed[1] # "new" /\ loaded.kind = "partial") =>
        /\ constructed[1] = "ready"
        /\ faults = {}
        /\ Required \subseteq DOMAIN state[1]
        /\ nCalls = 0 =>
              \A k \in Required :
                  state[1][k] = IF k \in DOMAIN loaded.doc THEN loaded.doc[k]
                                ELSE DefaultOf(k)
        /\ snapshot.kind \in {"none", "dict"}
        /\ snapshot.kind = "dict" => Required \subseteq DOMAIN snapshot.doc

\* a document with only some of the keys was loaded, a record_run on it has
\* returned and get_state has returned the result
C10Witness ==
    /\ loaded.kind = "partial"
    /\ DOMAIN loaded.doc = {"success_count", "runs"}
    /\ AllIdle
    /\ \E i \in 1..Len(invoked) : invoked[i].op = "run" /\ invoked[i].kind = "success"
    /\ snapshot.kind = "dict"
    /\ snapshot.doc = state[1]
    /\ state[1]["success_count"] = 4
    /\ DOMAIN state[1]["runs"] = {"evening", "morning"}

\* C11: no storage fault reaches the caller: when the directory cannot be
\* created, or the temp file cannot be written or renamed, the constructor,
\* record_event and record_run return normally.
C11NoStorageFault ==
    /\ faults = {}
    /\ constructed[1] # "raised"

\* thread t leaves _save_state in this step
SaveEnds(t) == pc[t] \in {"save", "writing", "replace"} /\ pc'[t] = "release"

\* ... with the temp file renamed onto the status path
SaveSucceeds(t) == SaveEnds(t) /\ pc[t] = "replace" /\ tmpIno # 0 /\ statusIno' = tmpIno

C12Step ==
    \A t \in Threads :
        /\ (SaveEnds(t) /\ ~SaveSucceeds(t)) =>
              /\ statusIno' = statusIno
              /\ StatusContent' = StatusContent
              /\ state' = state
              /\ state[1]["events"] # <<>>
              /\ state[1]["events"][Len(state[1]["events"])] = applied[Len(applied)]
        /\ SaveSucceeds(t) =>
              /\ JsonLoad(StatusContent') = Loaded("dict", state[1])
              /\ state' = state
              /\ state[1]["success_count"] = CountType(applied, "success")
              /\ state[1]["failure_count"] = CountType(applied, "error")

\* C12: a save that fails leaves the status file as it was and the in-memory
\* document with the update; the next save that succeeds writes the in-memory
\* document, which carries every update made so far, those of failed saves
\* included.
C12FailedSaveDropsOnlyThatWrite == [][C12Step]_vars

\* two updates were made, the save of the first failed (the status file is
\* still the first inode created), and the save of the second wrote both
C12Witness ==
    /\ AllIdle
    /\ Len(applied) = 2
    /\ statusIno = 1
    /\ JsonLoad(StatusContent).kind = "dict"
    /\ JsonLoad(StatusContent).doc["events"] = applied

\* the invoked calls made for a run label
CallsFor(label) == {i \in 1..Len(invoked) : invoked[i].run_type = label}

\* the outcome the most recent call for a label carries
LatestOutcome(label) ==
    LET c == invoked[CHOOSE i \in CallsFor(label) : \A j \in CallsFor(label) : j <= i]
    IN  RunEntry(c.kind, c.timestamp, c.message, c.metadata)

\* every label called holds the outcome of its most recent call, no other
\* label is present
RunsUpserted ==
    LET runs == state[1]["runs"]
    IN  /\ DOMAIN runs = {l \in RunLabels : CallsFor(l) # {}}
        /\ \A l \in DOMAIN runs : runs[l] = LatestOutcome(l)

\* C13: after any sequence of record_run calls runs holds, for each label, the
\* one outcome of the most recent call for it, and events has one entry per
\* call, up to max_events entries.
C13RunUpsert ==
    AllIdle =>
        /\ RunsUpserted
        /\ Len(state[1]["events"]) = Min(Len(invoked), max_events)

\* the number of invoked calls with a status
CountStatus(status) == Cardinality({i \in 1..Len(invoked) : invoked[i].kind = status})

\* C14: the event of a record_run call has type "success", "error" or
\* "warning" for the status of that name and "info" for every other status,
\* so success_count counts the calls with status "success" and failure_count
\* those with status "error".
C14TypeFromStatus ==
    /\ \A i \in 1..Len(applied) :
          applied[i].type =
              CASE invoked[i].kind = "success" -> "success"
                [] invoked[i].kind = "error" -> "error"
                [] invoked[i].kind = "warning" -> "warning"
                [] OTHER -> "info"
    /\ AllIdle =>
          /\ state[1]["success_count"] = CountStatus("success")
          /\ state[1]["failure_count"] = CountStatus("error")

\* a skipped run, a warning and a success were recorded: one counter moved once
C14Witness ==
    /\ AllIdle
    /\ Len(invoked) = 3
    /\ {invoked[i].kind : i \in 1..3} = {"skipped", "warning", "success"}
    /\ {applied[i].type : i \in 1..3} = {"info", "warning", "success"}
    /\ state[1]["success_count"] = 1
    /\ state[1]["failure_count"] = 0

\* C15: the document get_state returns shares no object with the monitor's
\* state: no step changes both, so an edit of the returned document (its
\* fields, its events list, its runs dict, the metadata of an event) leaves the
\* state as it was and a later record call leaves the returned document as it
\* was.
C15IndependentSnapshot ==
    /\ [](shared = {})
    /\ [][~(state' # state /\ snapshot' # snapshot)]_vars

\* a document taken after the first call, edited in all four ways, and a
\* second call recorded since
C15Witness ==
    /\ AllIdle
    /\ Len(applied) = 2
    /\ snapshot.kind = "dict"
    /\ snapshot.doc["last_updated"] = applied[1].timestamp
    /\ snapshot.doc["bot_name"] = "edited"
    /\ "edited" \in DOMAIN snapshot.doc["runs"]
    /\ snapshot.doc["events"] # <<>>
    /\ "metadata" \in DOMAIN snapshot.doc["events"][1]
    /\ state[1]["last_updated"] = applied[2].timestamp
    /\ state[1]["bot_name"] = BotName
    /\ "edited" \notin DOMAIN state[1]["runs"]

IsCall(e) == e.ev = "call"
IsSleep(e) == e.ev = "sleep"

\* the calls of the action so far, and the sleeps
Calls == SelectSeq(retry.trace, IsCall)
Sleeps == SelectSeq(retry.trace, IsSleep)

\* C16: the action is invoked on attempts 1, 2, ... in order and at most
\* max_retries times; an attempt that completes without fault is the last
\* thing post_with_retry does (no attempt, no sleep after it) and makes it
\* return true.
C16AttemptsInOrder ==
    /\ \A i \in 1..Len(Calls) : Calls[i].n = i
    /\ Len(Calls) <= retry.max_retries
    /\ \A i \in 1..Len(retry.trace) :
          retry.trace[i].out = "ok" =>
              /\ i = Len(retry.trace)
              /\ retry.pc = "done"
              /\ retry.result = "True"
    /\ retry.result = "True" =>
          /\ retry.trace # <<>>
          /\ retry.trace[Len(retry.trace)].out = "ok"

\* the action succeeded at the last attempt allowed
C16Witness ==
    /\ retry.result = "True"
    /\ retry.max_retries = 3
    /\ Len(Calls) = 3

\* N failed attempts with a sleep of backoff_factor^(k-1) between attempts k
\* and k+1
ExhaustedTrace(N, b) ==
    [i \in 1..(2 * N - 1) |->
        IF i % 2 = 1 THEN CallEv((i + 1) \div 2, "Exception")
        ELSE SleepEv(Pow(b, (i \div 2) - 1))]

\* C17: when every attempt fails with an exception, post_with_retry with
\* max_retries = N returns false after exactly N attempts, having slept N-1
\* times, between attempts k and k+1 for backoff_factor^(k-1), and not after
\* the last attempt.
C17Exhaustion ==
    (/\ retry.pc = "done"
     /\ \A i \in 1..Len(Calls) : Calls[i].out = "Exception")
        => /\ retry.result = "False"
           /\ retry.trace = ExhaustedTrace(retry.max_retries, retry.backoff_factor)

\* three failed attempts with backoff factor 2: sleeps of 1 and 2, none at the end
C17Witness ==
    /\ retry.pc = "done"
    /\ retry.result = "False"
    /\ retry.max_retries = 3
    /\ retry.backoff_factor = 2
    /\ Len(Calls) = 3
    /\ Sleeps = <<SleepEv(1), SleepEv(2)>>

\* C18: when the action fails with an exception on its first k attempts and
\* then succeeds (k < max_retries), post_with_retry returns true after exactly
\* k+1 attempts and exactly k sleeps.
C18EarlySuccess ==
    \A i \in 1..Len(Calls) :
        Calls[i].out = "ok" =>
            LET k == i - 1
            IN  /\ \A j \in 1..k : Calls[j].out = "Exception"
                /\ k < retry.max_retries
                /\ retry.pc = "done"
                /\ retry.result = "True"
                /\ Len(Calls) = k + 1
                /\ Len(Sleeps) = k

\* one failure, then success: two attempts and one sleep
C18Witness ==
    /\ retry.result = "True"
    /\ Len(Calls) = 2
    /\ Calls[1].out = "Exception"
    /\ Len(Sleeps) = 1

\* C19 as stated: whatever the action raises, post_with_retry does not raise.
C19NeverRaises == retry.result # "raised"

\* C19: whatever exception of class Exception the action raises on any
\* attempt, post_with_retry does not raise: it ends with a boolean, false only
\* when max_retries attempts were made and all failed.
C19NoExceptionEscapes ==
    (\A i \in 1..Len(Calls) : Calls[i].out # "BaseException")
        => /\ retry.result # "raised"
           /\ retry.pc = "done" => retry.result \in {"True", "False"}
           /\ retry.result = "False" =>
                 /\ Len(Calls) = retry.max_retries
                 /\ \A i \in 1..Len(Calls) : Calls[i].out = "Exception"

\* both attempts allowed raised an exception and the call returned false
C19Witness ==
    /\ retry.pc = "done"
    /\ retry.result = "False"
    /\ retry.max_retries = 2
    /\ Len(Calls) = 2

\* the documents of the files from slot i on that match the pattern and hold
\* a JSON object, in name order
RECURSIVE ValidDocsFrom(_)
ValidDocsFrom(i) ==
    IF i > Len(ScanNames) THEN <<>>
    ELSE IF files[i] = "valid" /\ ScanNames[i].suffix = "_status.json"
    THEN <<DocOf(ScanNames[i].job)>> \o ValidDocsFrom(i + 1)
    ELSE ValidDocsFrom(i + 1)

\* C20: on a directory with any mix of valid files, files with invalid JSON,
\* unreadable files and files whose JSON is not an object, load_all_statuses
\* returns, without raising, exactly the documents of the valid object files
\* in name order.
C20ScanResilient ==
    scan.pc = "done" =>
        /\ scan.result = "returned"
        /\ scan.statuses = ValidDocsFrom(1)

\* C21: when the directory does not exist, or the path is not a directory,
\* load_all_statuses returns the empty list without raising; and no step of
\* it creates, changes or removes a file or the directory.
C21PureReader ==
    /\ []((scan.pc = "done" /\ dirFault \in {"ENOENT", "ENOTDIR"})
            => (scan.result = "returned" /\ scan.statuses = <<>>))
    /\ [][files' = files /\ dirFault' = dirFault /\ fsVars' = fsVars]_vars

\* the call has returned on a path that does not exist
C21Witness ==
    /\ scan.pc = "done"
    /\ dirFault = "ENOENT"
    /\ scan.result = "returned"

\* the fields the calls made so far assign
MutatedKeys ==
    (IF invoked # <<>> THEN {"events", "last_updated"} ELSE {})
    \cup (IF \E i \in 1..Len(invoked) : InvokedEvents[i].type = "success"
          THEN {"last_success", "success_count"} ELSE {})
    \cup (IF \E i \in 1..Len(invoked) : InvokedEvents[i].type = "error"
          THEN {"last_failure", "failure_count"} ELSE {})
    \cup (IF \E i \in 1..Len(invoked) : invoked[i].op = "run" THEN {"runs"} ELSE {})

\* C22: a monitor constructed without a status file saves, and a new monitor
\* for the same job and directory loads: its document has every required
\* field, and each field no call has assigned has the value of a freshly
\* defaulted document.
C22DefaultsRoundTrip ==
    (loaded.kind = "absent" /\ constructed[2] # "new") =>
        /\ constructed[2] = "ready"
        /\ DOMAIN state[2] = Required
        /\ \A k \in Required \ MutatedKeys : state[2][k] = FreshState[k]
        /\ statusIno = 0 => state[2] = FreshState

\* the first monitor started without a file and saved an "info" event; the
\* second one loaded that document: the event is there, the counters, the
\* success and failure stamps and the runs are the defaults
C22Witness ==
    /\ loaded.kind = "absent"
    /\ constructed[2] = "ready"
    /\ AllIdle
    /\ Len(invoked) = 1
    /\ invoked[1].op = "event"
    /\ invoked[1].kind = "info"
    /\ state[2]["events"] = <<InvokedEvents[1]>>
    /\ state[2]["success_count"] = 0
    /\ state[2]["last_success"] = None
    /\ state[2]["runs"] = EmptyDict

\* the status file holds the in-memory document of the first monitor
FileIsState ==
    /\ statusIno # 0
    /\ JsonLoad(StatusContent) = Loaded("dict", state[1])

C27Step ==
    /\ \A t \in Threads : SaveSucceeds(t) => FileIsState'
    /\ (FileIsState /\ ~FileIsState') => \E t \in Threads : pc[t] = "locked" /\ pc'[t] # "locked"
    /\ (FileIsState /\ AllIdle /\ snapshot' # snapshot) => snapshot' = JsonLoad(StatusContent)
    /\ (FileIsState /\ AllIdle /\ constructed[2] = "new" /\ constructed'[2] # "new")
          => (constructed'[2] = "ready" /\ state'[2] = state[1])

\* C27: a save that succeeds leaves the status file equal to the monitor's
\* in-memory document, and it stays equal until the next call changes the
\* document; while it is, with no call in progress, get_state returns that
\* document and a new BotMonitor for the same job and directory starts with it.
C27FileEqualsState == [][C27Step]_vars

\* two calls were saved; get_state and a new monitor both give the document
\* the first monitor holds
C27Witness ==
    /\ AllIdle
    /\ Len(applied) = 2
    /\ FileIsState
    /\ constructed[2] = "ready"
    /\ state[2] = state[1]
    /\ snapshot = Loaded("dict", state[1])

\* what one step of thread t does to the counters, the stamps and bot_name
C23Frame(t) ==
    LET old == state[monOf[t]]
        new == state'[monOf[t]]
        ty == EventOfCall(call[t]).type
        ts == EventOfCall(call[t]).timestamp
    IN  /\ (pc[t] = "locked" /\ pc'[t] # "locked") =>
              /\ new["success_count"] = old["success_count"]
              /\ new["failure_count"] = old["failure_count"]
              /\ new["last_success"] = IF ty = "success" THEN ts ELSE old["last_success"]
              /\ new["last_failure"] = IF ty = "error" THEN ts ELSE old["last_failure"]
              /\ pc'[t] = IF ty \in {"success", "error"} THEN "count" ELSE "save"
        /\ (pc[t] = "count" /\ pc'[t] # "count") =>
              /\ ty \in {"success", "error"}
              /\ new["success_count"] =
                    old["success_count"] + (IF ty = "success" THEN 1 ELSE 0)
              /\ new["failure_count"] =
                    old["failure_count"] + (IF ty = "error" THEN 1 ELSE 0)
              /\ new["last_success"] = old["last_success"]
              /\ new["last_failure"] = old["last_failure"]

C23Step ==
    /\ \A t \in Threads : C23Frame(t)
    /\ state' # state => \E t \in Threads : pc[t] \in {"locked", "count"} /\ pc'[t] # pc[t]
    /\ \A m \in Monitors :
          /\ state'[m]["bot_name"] = state[m]["bot_name"]
          /\ state'[m]["success_count"] >= state[m]["success_count"]
          /\ state'[m]["failure_count"] >= state[m]["failure_count"]

\* C23: a call recording an event that is neither "success" nor "error"
\* leaves both counters and both stamps as they were; "success" raises
\* success_count by exactly 1 and sets last_success, leaving failure_count and
\* last_failure; "error" likewise with the roles exchanged; no step changes
\* bot_name or lowers a counter.
C23CounterFrame == [][C23Step]_vars

\* a success, then an "info" event: the counter and the stamp of the success
\* are still there, those of failure untouched
C23Witness ==
    /\ AllIdle
    /\ Len(applied) = 2
    /\ applied[1].type = "success"
    /\ applied[2].type = "info"
    /\ state[1]["success_count"] = 1
    /\ state[1]["last_success"] = applied[1].timestamp
    /\ state[1]["failure_count"] = 0
    /\ state[1]["last_failure"] = None

\* C24: a thread outside a call does not hold the lock, also after a call
\* that ended by an exception raised at the mutation or in the save; so a
\* call waiting for the lock gets it.
C24LockReleased ==
    /\ [](\A t \in Threads : pc[t] = "idle" => \A m \in Monitors : lock[m] # t)
    /\ \A t \in Threads : (pc[t] = "stamped") ~> (pc[t] = "locked")

\* a call ended by an exception and thread 2 holds the lock since
C24Witness ==
    /\ faults # {}
    /\ pc[1] = "idle"
    /\ pc[2] = "locked"
    /\ lock[1] = 2

-----------------------------------------------------------------------------
(* run_market_update of RealStockMarketBot (run_weekend_update of the       *)
(* weekend bot has the same shape): a try block that records a starting     *)
(* event, prepares the message, posts it through post_with_retry and        *)
(* records the run; the except clause records the run as an error.          *)

\* every variable but bot, retry and those of a record call's invocation
notBot == <<max_events, monOf, constructed, state, lock, cnt, faults, applied, loaded,
            fsVars, snapshot, shared, dirFault, files, scan, server>>

\* lines 458-470: run_metadata, and line 498: the metadata of the except clause
RunMetadata == [k \in {"tweet_length"} |-> "n"]
ErrorMetadata == [k \in {"error"} |-> "e"]

\* a call of the monitor by the bot's thread: lines 117 and 131 of monitoring.py
BotCalls(c) ==
    /\ pc[1] = "idle"
    /\ call' = [call EXCEPT ![1] = c]
    /\ invoked' = Append(invoked, c)
    /\ clock' = clock + 1
    /\ nCalls' = nCalls + 1
    /\ overlap' = overlap
    /\ pc' = [pc EXCEPT ![1] = "stamped"]

\* lines 445-449: the label, and the starting event
BotStart ==
    /\ bot.pc = "start"
    /\ BotCalls([op |-> "event", kind |-> "info", run_type |-> "",
                 message |-> "Starting " \o bot.label \o " market update",
                 metadata |-> EmptyDict, timestamp |-> clock])
    /\ bot' = [bot EXCEPT !.pc = "starting"]
    /\ UNCHANGED <<notBot, retry>>

\* lines 451-477: market data, analysis, formatting and the metadata; any of
\* them may raise, and post_to_x (line 478) calls post_with_retry with the
\* defaults of its signature
BotWork ==
    /\ bot.pc = "starting"
    /\ pc[1] = "idle"
    /\ \/ /\ bot' = [bot EXCEPT !.pc = "except", !.raised = TRUE]
          /\ retry' = retry
       \/ /\ bot' = [bot EXCEPT !.pc = "posting", !.posts = @ + 1]
          /\ retry' = [pc |-> "loop", attempt |-> 0, max_retries |-> MaxRetriesBound,
                       backoff_factor |-> 2, trace |-> <<>>, result |-> "none"]
    /\ UNCHANGED <<notBot, pc, call, clock, nCalls, invoked, overlap>>

\* an update that reports success whatever post_to_x returned
BotRecordSuccess ==
    /\ bot.pc = "posting"
    /\ retry.pc = "done"
    /\ IF retry.result = "raised"
       THEN /\ bot' = [bot EXCEPT !.pc = "aborted"]
            /\ UNCHANGED <<pc, call, clock, nCalls, invoked, overlap>>
       ELSE /\ bot' = [bot EXCEPT !.pc = "recording"]
            /\ BotCalls([op |-> "run", kind |-> "success", run_type |-> bot.label,
                         message |-> "Market update posted to X",
                         metadata |-> RunMetadata, timestamp |-> clock])
    /\ UNCHANGED <<notBot, retry>>

\* lines 478-494: the result of post_to_x chooses the outcome; an exception
\* that is no Exception leaves run_market_update
BotRecord ==
    /\ bot.pc = "posting"
    /\ retry.pc = "done"
    /\ IF retry.result = "raised"
       THEN /\ bot' = [bot EXCEPT !.pc = "aborted"]
            /\ UNCHANGED <<pc, call, clock, nCalls, invoked, overlap>>
       ELSE /\ bot' = [bot EXCEPT !.pc = "recording"]
            /\ BotCalls([op |-> "run",
                         kind |-> IF retry.result = "True" THEN "success" ELSE "error",
                         run_type |-> bot.label,
                         message |-> IF retry.result = "True"
                                     THEN "Market update posted to X"
                                     ELSE "Failed to post market update",
                         metadata |-> RunMetadata, timestamp |-> clock])
    /\ UNCHANGED <<notBot, retry>>

\* lines 495-499: the except clause
BotExcept ==
    /\ bot.pc = "except"
    /\ BotCalls([op |-> "run", kind |-> "error", run_type |-> bot.label,
                 message |-> "Exception during " \o bot.label \o " update",
                 metadata |-> ErrorMetadata, timestamp |-> clock])
    /\ bot' = [bot EXCEPT !.pc = "recording"]
    /\ UNCHANGED <<notBot, retry>>

\* record_run returned: run_market_update returns
BotReturn ==
    /\ bot.pc = "recording"
    /\ pc[1] = "idle"
    /\ bot' = [bot EXCEPT !.pc = "done"]
    /\ UNCHANGED <<notBot, retry, pc, call, clock, nCalls, invoked, overlap>>

\* line 445: update_label from is_morning
InitBot ==
    /\ Quiet
    /\ dirFault = "none"
    /\ files = <<>>
    /\ scan = NoScan
    /\ server = NoServer
    /\ retry = NoRetry
    /\ \E l \in RunLabels : bot = [pc |-> "start", label |-> l, posts |-> 0,
                                   raised |-> FALSE]

NextBot ==
    \/ BotStart
    \/ BotWork
    \/ (bot.pc = "posting" /\ RetryNext)
    \/ (bot.pc = "posting" /\ RetryCall)
    \/ (bot.pc = "posting" /\ RetrySleep)
    \/ BotRecord
    \/ BotExcept
    \/ BotReturn
    \/ Acquire(1)
    \/ RecordEventLocked(1)
    \/ StoreCount(1)
    \/ OpenTmp(1)
    \/ CloseTmp(1)
    \/ Replace(1)
    \/ SaveFail(1)
    \/ Release(1)

SpecBot == InitBot /\ [][NextBot]_vars

\* the record_run calls made so far
RunCalls == SelectSeq(invoked, LAMBDA c : c.op = "run")

\* the create_tweet calls of the retry sequence that succeeded
Published == SelectSeq(retry.trace, LAMBDA e : e.ev = "call" /\ e.out = "ok")

\* C25: an invocation of run_market_update starts at most one retry sequence
\* and publishes at most once; until it records, no run outcome exists; when
\* it returns it has made exactly one record_run call, for its label, with
\* status "success" exactly when post_with_retry returned True and "error"
\* otherwise (also when a step before the post raised and nothing was
\* posted), and the monitor's runs hold that outcome and no other.
C25OneOutcome ==
    /\ bot.posts <= 1
    /\ Len(Published) <= 1
    /\ bot.pc \in {"start", "starting", "posting", "except", "aborted"}
          => Len(RunCalls) = 0
    /\ bot.pc \in {"recording", "done"} =>
          /\ Len(RunCalls) = 1
          /\ RunCalls[1].run_type = bot.label
          /\ RunCalls[1].kind \in {"success", "error"}
          /\ RunCalls[1].kind = "success" <=> retry.result = "True"
          /\ bot.raised => retry = NoRetry /\ RunCalls[1].kind = "error"
    /\ bot.pc = "done" =>
          /\ DOMAIN state[1].runs = {bot.label}
          /\ state[1].runs[bot.label].status = RunCalls[1].kind

\* an update whose preparation raised returned with the outcome "error"
C25Witness ==
    /\ bot.pc = "done"
    /\ bot.raised
    /\ state[1].runs[bot.label].status = "error"

-----------------------------------------------------------------------------
(* The loop of ServerStockMarketBot. The wall clock is server.time, counted *)
(* in the phases of a day; a reading of datetime.now() gives the date and   *)
(* the phase. The clock may move between any two statements of the loop.    *)

\* calendar dates the clock runs through
MaxDays == 2

\* a day: "morning" is hour == 8 and minute < 5 (line 324), "evening" is
\* hour == 20 and minute < 5 (line 333); each window lasts two readings
DayPhases == <<"night", "morning", "morning", "midday", "evening", "evening">>

MaxTime == Len(DayPhases) * MaxDays - 1

\* now.date()
DateOf(t) == t \div Len(DayPhases)

PhaseOf(t) == DayPhases[(t % Len(DayPhases)) + 1]

\* the clock readings that may follow t while one or two statements run
Later(t) == {u \in {t, t + 1} : u <= MaxTime}

RunOf(label, t) == [label |-> label, date |-> DateOf(t)]

\* the update of that label and date starts
Started(s, label, t) ==
    [s EXCEPT !.ran = @ \cup {RunOf(label, t)},
              !.twice = IF RunOf(label, t) \in s.ran THEN @ \cup {RunOf(label, t)} ELSE @]

\* line 347: now = datetime.now()
ServerNow ==
    /\ server.pc = "top"
    /\ server' = [server EXCEPT !.now = server.time, !.pc = "morning"]
    /\ UNCHANGED <<max_events, monOf, constructed, state, lock, pc, call, cnt, faults,
                   clock, nCalls, histVars, fsVars, snapshot, shared, dirFault, retry,
                   files, scan, bot>>

\* lines 350 and 321-328: should_post_morning_update reads the clock itself
ShouldPostMorning ==
    /\ server.pc = "morning"
    /\ \E t \in Later(server.time) :
          LET s == [server EXCEPT !.time = t]
          IN  IF PhaseOf(t) = "morning" /\ s.last_morning_post # DateOf(t)
              THEN server' = [Started(s, "morning", t) EXCEPT
                                !.pc = "run", !.is_morning = TRUE]
              ELSE server' = [s EXCEPT
                                !.pc = "evening",
                                !.skipped = IF PhaseOf(t) = "morning"
                                            THEN @ \cup {RunOf("morning", t)} ELSE @]
    /\ UNCHANGED <<max_events, monOf, constructed, state, lock, pc, call, cnt, faults,
                   clock, nCalls, histVars, fsVars, snapshot, shared, dirFault, retry,
                   files, scan, bot>>

\* lines 357 and 330-337: should_post_evening_update; lines 364-365 only log
ShouldPostEvening ==
    /\ server.pc = "evening"
    /\ \E t \in Later(server.time) :
          LET s == [server EXCEPT !.time = t]
          IN  IF PhaseOf(t) = "evening" /\ s.last_evening_post # DateOf(t)
              THEN server' = [Started(s, "evening", t) EXCEPT
                                !.pc = "run", !.is_morning = FALSE]
              ELSE server' = [s EXCEPT
                                !.pc = "sleep30",
                                !.skipped = IF PhaseOf(t) = "evening"
                                            THEN @ \cup {RunOf("evening", t)} ELSE @]
    /\ UNCHANGED <<max_events, monOf, constructed, state, lock, pc, call, cnt, faults,
                   clock, nCalls, histVars, fsVars, snapshot, shared, dirFault, retry,
                   files, scan, bot>>

\* lines 296-319 and 281-294: run_market_update posts or fails to post; every
\* Exception is caught inside it and logged
RunMarketUpdate ==
    /\ server.pc = "run"
    /\ \E ok \in BOOLEAN, t \in Later(server.time) :
          server' = [server EXCEPT !.success = ok, !.time = t, !.pc = "set"]
    /\ UNCHANGED <<max_events, monOf, constructed, state, lock, pc, call, cnt, faults,
                   clock, nCalls, histVars, fsVars, snapshot, shared, dirFault, retry,
                   files, scan, bot>>

\* a loop that remembers the date of a post only when the post succeeded
SetLastPostOnSuccess ==
    /\ server.pc = "set"
    /\ server' = [server EXCEPT
                    !.last_morning_post =
                        IF server.is_morning /\ server.success
                        THEN DateOf(server.now) ELSE @,
                    !.last_evening_post =
                        IF ~server.is_morning /\ server.success
                        THEN DateOf(server.now) ELSE @,
                    !.pc = "sleep60"]
    /\ UNCHANGED <<max_events, monOf, constructed, state, lock, pc, call, cnt, faults,
                   clock, nCalls, histVars, fsVars, snapshot, shared, dirFault, retry,
                   files, scan, bot>>

\* lines 353 and 359: the date of the loop's own reading is remembered
SetLastPost ==
    /\ server.pc = "set"
    /\ server' = [server EXCEPT
                    !.last_morning_post =
                        IF server.is_morning THEN DateOf(server.now) ELSE @,
                    !.last_evening_post =
                        IF ~server.is_morning THEN DateOf(server.now) ELSE @,
                    !.pc = "sleep60"]
    /\ UNCHANGED <<max_events, monOf, constructed, state, lock, pc, call, cnt, faults,
                   clock, nCalls, histVars, fsVars, snapshot, shared, dirFault, retry,
                   files, scan, bot>>

\* lines 354, 360 and 367: time.sleep(60) after an update, time.sleep(30) at
\* the end of every iteration
ServerSleep ==
    /\ server.pc \in {"sleep60", "sleep30"}
    /\ \E t \in Later(server.time) :
          server' = [server EXCEPT
                       !.time = t,
                       !.pc = IF server.pc = "sleep60" THEN "sleep30" ELSE "top"]
    /\ UNCHANGED <<max_events, monOf, constructed, state, lock, pc, call, cnt, faults,
                   clock, nCalls, histVars, fsVars, snapshot, shared, dirFault, retry,
                   files, scan, bot>>

\* lines 62-65: both dates start as None; the process may start at any time
InitServer ==
    /\ Quiet
    /\ dirFault = "none"
    /\ files = <<>>
    /\ scan = NoScan
    /\ retry = NoRetry
    /\ bot = NoBot
    /\ \E t \in 0..MaxTime :
          server = [NoServer EXCEPT !.pc = "top", !.time = t, !.now = t]

NextServer ==
    \/ ServerNow
    \/ ShouldPostMorning
    \/ ShouldPostEvening
    \/ RunMarketUpdate
    \/ SetLastPost
    \/ ServerSleep

SpecServer == InitServer /\ [][NextServer]_vars

-----------------------------------------------------------------------------
(* Timestamps of the events list.                                           *)

\* C28: the timestamps of the events list never decrease from oldest to
\* newest, and last_updated is the timestamp of the newest event, in every
\* state of two threads recording on a monitor that started fresh and keeps
\* at least one event.
C28TimestampsOrdered ==
    LET events == state[1]["events"]
    IN  max_events >= 1 =>
           /\ \A i, j \in 1..Len(events) :
                 i < j => events[i]["timestamp"] <= events[j]["timestamp"]
           /\ Len(events) > 0 =>
                 state[1]["last_updated"] = events[Len(events)]["timestamp"]

-----------------------------------------------------------------------------
(* The run outcome and its event in the saved document.                     *)

\* the status file holds a document
HasSaved == statusIno # 0 /\ JsonLoad(StatusContent).kind = "dict"

SavedDoc == JsonLoad(StatusContent).doc

\* the run outcome and the newest event of a document carry one timestamp,
\* which is last_updated, and the event's type is that of the outcome's status
NewestPair(doc, label) ==
    LET events == doc["events"]
    IN  /\ Len(events) > 0
        /\ label \in DOMAIN doc["runs"]
        /\ doc["runs"][label]["timestamp"] = events[Len(events)]["timestamp"]
        /\ doc["last_updated"] = events[Len(events)]["timestamp"]
        /\ events[Len(events)]["type"] = EventTypeOf(doc["runs"][label]["status"])
        /\ \A l \in DOMAIN doc["runs"] :
              doc["runs"][l]["timestamp"] <= doc["runs"][label]["timestamp"]

-----------------------------------------------------------------------------
(* The temporary file of a save and the scan of load_all_statuses.          *)

\* line 32: the status file of a bot
StatusName(job) == [job |-> job, suffix |-> "_status.json"]

\* line 73: with_suffix(".tmp") replaces the ".json" of the status file
TmpName(name) == [name EXCEPT !.suffix = "_status.tmp"]

ScanJobs == {ScanNames[i].job : i \in DOMAIN ScanNames}

\* the names in the directory that are the temporary file of some bot
TmpSlots == {i \in DOMAIN ScanNames : \E j \in ScanJobs : ScanNames[i] = TmpName(StatusName(j))}

\* C30: the pattern of the scan matches no temporary file name; the scan
\* never holds a temporary file among the names it will open, never returns
\* more documents than there are valid status files, and what it returns is
\* the documents of the valid status files only, whatever the temporary file
\* holds (nothing, a partial document or a complete one).
C30TmpNeverMatched ==
    /\ \A j \in ScanJobs : ~Matches(TmpName(StatusName(j)))
    /\ scan.todo \cap TmpSlots = {}
    /\ Len(scan.statuses) <= Len(ValidDocsFrom(1))
    /\ scan.result = "returned" => scan.statuses = ValidDocsFrom(1)

\* a scan returned without the complete document that the temporary file of
\* bot b held, b having no status file yet
C30Witness ==
    /\ scan.pc = "done"
    /\ scan.result = "returned"
    /\ TmpSlots # {}
    /\ \A i \in TmpSlots : files[i] = "valid"
    /\ \A i \in DOMAIN ScanNames \ TmpSlots :
          files[i] = IF ScanNames[i].job = "b" THEN "absent" ELSE "valid"
    /\ \A k \in 1..Len(scan.statuses) : scan.statuses[k] # DocOf("b")
    /\ Len(scan.statuses) = 2

====
